---- MODULE Spec2Model ----
(***************************************************************************)
(* Model of the notebook instrumentation extension                         *)
(* (notebook_instrumentation/__init__.py and instrumentation.py).          *)
(*                                                                         *)
(* Strings that the code trims or compares (the identity token, the        *)
(* content of ~/.notebook-id) are sequences of character codes, where      *)
(* code 0 is a whitespace character and every other code is not.           *)
(***************************************************************************)
EXTENDS Integers, Sequences, FiniteSets, TLC

VARIABLES
    file,        \* ~/.notebook-id: existence, permissions, content
    dirw,        \* whether the home directory allows creating the file
    clock,       \* uuid1 time source: number of tokens generated so far
    subs,        \* ipython.events: sequence of registered event names
    writes,      \* writes of the identity file by this process
    ntracked,    \* calls of instrumentor.track made by this process
    pending,     \* records queued in the backend, not yet delivered
    errors,      \* calls of on_error(error, items)
    ops,         \* operations (loads and callbacks) run so far
    last,        \* what the most recent operation did (see NoOp)
    pc,          \* racing getid() calls: position of each caller
    buf,         \* racing getid() calls: token held by each caller
    ret,         \* racing getid() calls: value returned by each caller
    ev,          \* normalisation: the event object under test
    out          \* normalisation: result of extract_info_from_event

vars == <<file, dirw, clock, subs, writes, ntracked, pending, errors, ops,
          last, pc, buf, ret, ev, out>>

mainvars == <<file, dirw, clock, subs, writes, ntracked, pending, errors,
              ops, last>>
racevars == <<pc, buf, ret>>
normvars == <<ev, out>>

----------------------------------------------------------------------------
(* Bounds *)

MaxLen == 2        \* longest initial content of the identity file
MaxOps == 2        \* operations (loads and callbacks) in a behaviour
MaxProcs == 3      \* racing getid() callers
MaxInt == 2        \* largest integer attribute value of an event object

----------------------------------------------------------------------------
(* Strings as sequences of character codes *)

WS == 0            \* the whitespace character
CH == 1            \* an ordinary character of a pre-existing file
UuidBase == 2      \* first character code used by generated tokens

RECURSIVE LStrip(_)
LStrip(s) == IF s # <<>> /\ Head(s) = WS THEN LStrip(Tail(s)) ELSE s

RECURSIVE RStrip(_)
RStrip(s) ==
    IF s # <<>> /\ s[Len(s)] = WS THEN RStrip(SubSeq(s, 1, Len(s) - 1)) ELSE s

\* str.strip()
Strip(s) == RStrip(LStrip(s))

\* str(uuid.uuid1()): time-ordered, never empty, no whitespace; the n-th
\* token generated is distinct from every other one
Uuid1(n) == <<UuidBase + n>>

RECURSIVE SeqsUpTo(_, _)
SeqsUpTo(S, n) ==
    IF n = 0 THEN {<<>>}
    ELSE LET R == SeqsUpTo(S, n - 1)
         IN  R \cup {Append(s, c) : s \in {r \in R : Len(r) = n - 1}, c \in S}

----------------------------------------------------------------------------
(* The identity file and open()/read()/write() on it *)

Files ==
    [exists : {FALSE}, r : {TRUE}, w : {TRUE}, text : {TRUE},
     content : {<<>>}]
    \cup
    [exists : {TRUE}, r : BOOLEAN, w : BOOLEAN, text : {TRUE},
     content : SeqsUpTo({WS, CH}, MaxLen)]
    \cup
    [exists : {TRUE}, r : BOOLEAN, w : BOOLEAN, text : {FALSE},
     content : {<<>>}]

\* text is FALSE when the bytes of the file do not decode (its content is then
\* not modelled).
\* open(path, "r") succeeds and f.read() decodes
CanRead(f) == f.exists /\ f.r /\ f.text

\* open(path, "w") succeeds
CanWrite(f, d) == IF f.exists THEN f.w ELSE d

\* open(path, "w"): creates the file or truncates it; permissions of an
\* existing file are kept
Truncated(f) ==
    IF f.exists THEN [f EXCEPT !.content = <<>>, !.text = TRUE]
    ELSE [exists |-> TRUE, r |-> TRUE, w |-> TRUE, text |-> TRUE,
          content |-> <<>>]

Written(f, s) == [Truncated(f) EXCEPT !.content = s]

----------------------------------------------------------------------------
(* getid() *)

NoId == <<>>

\* getid() without the strip() of what it read
GetIdNoStrip(f, d, n) ==
    IF CanRead(f)
    THEN [raised |-> FALSE, id |-> f.content, file |-> f,
          wrote |-> FALSE, read |-> TRUE, gen |-> FALSE]
    ELSE IF CanWrite(f, d)
    THEN [raised |-> FALSE, id |-> Uuid1(n), file |-> Written(f, Uuid1(n)),
          wrote |-> TRUE, read |-> FALSE, gen |-> TRUE]
    ELSE [raised |-> TRUE, id |-> NoId, file |-> f,
          wrote |-> FALSE, read |-> FALSE, gen |-> TRUE]

\* Result of one call of getid() on file f, home directory writable d, with
\* n tokens generated before it:
\*   raised  the write in the except branch failed and its error propagates
\*   id      the value returned
\*   file    the file afterwards
\*   wrote   the file was written
\*   read    the try branch returned
\*   gen     uuid1 was called
GetId(f, d, n) ==
    IF CanRead(f)
    THEN [raised |-> FALSE, id |-> Strip(f.content), file |-> f,
          wrote |-> FALSE, read |-> TRUE, gen |-> FALSE]
    ELSE IF CanWrite(f, d)
    THEN [raised |-> FALSE, id |-> Uuid1(n), file |-> Written(f, Uuid1(n)),
          wrote |-> TRUE, read |-> FALSE, gen |-> TRUE]
    ELSE [raised |-> TRUE, id |-> NoId, file |-> f,
          wrote |-> FALSE, read |-> FALSE, gen |-> TRUE]

----------------------------------------------------------------------------
(* Python values carried by event objects, and str() of them *)

EmptyMap == [k \in {} |-> ""]

None == [kind |-> "none", n |-> 0, s |-> "", d |-> EmptyMap]
IntV(i) == [kind |-> "int", n |-> i, s |-> "", d |-> EmptyMap]
StrV(t) == [kind |-> "str", n |-> 0, s |-> t, d |-> EmptyMap]

\* An object with a __dict__: d maps attribute names to plain values
ObjV(d) == [kind |-> "obj", n |-> 0, s |-> "", d |-> d]

Digit == <<"1", "2", "3", "4", "5", "6", "7", "8", "9">>

RECURSIVE IntStr(_)
IntStr(i) ==
    IF i < 0 THEN "-" \o IntStr(0 - i)
    ELSE IF i = 0 THEN "0"
    ELSE IF i < 10 THEN Digit[i]
    ELSE IntStr(i \div 10) \o (IF i % 10 = 0 THEN "0" ELSE Digit[i % 10])

\* str(v)
Str(v) ==
    CASE v.kind = "int" -> IntStr(v.n)
      [] v.kind = "str" -> v.s
      [] v.kind = "none" -> "None"
      [] v.kind = "obj" -> "<object>"

\* hasattr(v, "__dict__")
HasDict(v) == v.kind = "obj"

\* dict update: entries of m2 replace those of m1
Merge(m1, m2) ==
    [k \in DOMAIN m1 \cup DOMAIN m2 |-> IF k \in DOMAIN m2 THEN m2[k] ELSE m1[k]]

Remove(m, key) == [k \in DOMAIN m \ {key} |-> m[k]]

StrAll(m) == [k \in DOMAIN m |-> Str(m[k])]

----------------------------------------------------------------------------
(* extract_info_from_event(event) *)

\* An event object:
\*   hasDict   hasattr(event, "__dict__")
\*   attrs     event.__dict__ (empty when there is none)
\*   hasItems  event has an items() method: mapping-style access
\*   items     dict(event.items())
\*   cls       attributes found on the class, not in the instance __dict__
HasInfo(e) == "info" \in DOMAIN e.attrs \/ "info" \in DOMAIN e.cls

\* event.info: the instance attribute shadows the class attribute
InfoOf(e) == IF "info" \in DOMAIN e.attrs THEN e.attrs["info"] ELSE e.cls["info"]

\* hasattr(event, "items") holds through an instance attribute, which is a
\* plain value: event.items() raises
ItemsNotCallable(e) == "items" \in DOMAIN e.attrs

NoOut == [done |-> FALSE, raised |-> "none", info |-> EmptyMap]

\* extract_info_from_event with the info attributes not replacing entries
\* already copied
ExtractInfoKeepsFirst(e) ==
    LET i1 == IF e.hasDict THEN StrAll(e.attrs) ELSE EmptyMap
        i2 == IF e.hasItems THEN Merge(i1, StrAll(e.items)) ELSE i1
    IN  IF ItemsNotCallable(e)
        THEN [done |-> TRUE, raised |-> "TypeError", info |-> EmptyMap]
        ELSE IF ~HasInfo(e) THEN [done |-> TRUE, raised |-> "none", info |-> i2]
        ELSE IF ~HasDict(InfoOf(e))
        THEN [done |-> TRUE, raised |-> "AttributeError", info |-> EmptyMap]
        ELSE LET i3 == Merge(StrAll(InfoOf(e).d), i2)
             IN  IF "info" \notin DOMAIN i3
                 THEN [done |-> TRUE, raised |-> "KeyError", info |-> EmptyMap]
                 ELSE [done |-> TRUE, raised |-> "none",
                       info |-> Remove(i3, "info")]

ExtractInfo(e) ==
    LET i1 == IF e.hasDict THEN StrAll(e.attrs) ELSE EmptyMap
        i2 == IF e.hasItems THEN Merge(i1, StrAll(e.items)) ELSE i1
    IN  IF ItemsNotCallable(e)
        THEN [done |-> TRUE, raised |-> "TypeError", info |-> EmptyMap]
        ELSE IF ~HasInfo(e) THEN [done |-> TRUE, raised |-> "none", info |-> i2]
        ELSE IF ~HasDict(InfoOf(e))
        THEN [done |-> TRUE, raised |-> "AttributeError", info |-> EmptyMap]
        ELSE LET i3 == Merge(i2, StrAll(InfoOf(e).d))
             IN  IF "info" \notin DOMAIN i3
                 THEN [done |-> TRUE, raised |-> "KeyError", info |-> EmptyMap]
                 ELSE [done |-> TRUE, raised |-> "none",
                       info |-> Remove(i3, "info")]

\* Plain attribute values
PlainVals == {IntV(i) : i \in 1..MaxInt} \cup {StrV("x"), StrV("1")}

\* All mappings from a subset of keys K to values V
Maps(K, V) == UNION {[D -> V] : D \in SUBSET K}

\* Values an info attribute can hold: an object with attributes, or None
InfoVals == {ObjV(d) : d \in Maps({"a", "c", "info"}, PlainVals)} \cup {None}

\* Event objects handed to the callbacks
Events ==
    {[hasDict |-> TRUE, attrs |-> Merge(at, inf), hasItems |-> it # EmptyMap,
      items |-> it, cls |-> cl] :
        at \in Maps({"a"}, PlainVals),
        inf \in Maps({"info"}, InfoVals),
        it \in Maps({"a"}, PlainVals),
        cl \in Maps({"info"}, {ObjV([c |-> IntV(2)])})}
    \cup
    {[hasDict |-> TRUE, attrs |-> Merge([items |-> StrV("x")], inf),
      hasItems |-> FALSE, items |-> EmptyMap, cls |-> EmptyMap] :
        inf \in Maps({"info"}, InfoVals)}
    \cup
    {[hasDict |-> FALSE, attrs |-> EmptyMap, hasItems |-> TRUE, items |-> it,
      cls |-> EmptyMap] : it \in Maps({"a", "info"}, PlainVals)}

----------------------------------------------------------------------------
(* get_notebook_path(), get_notebook_name(), get_notebook_hash() *)

\* What the kernel reports: ok is FALSE when ipykernel cannot be imported,
\* the connection info does not parse or has no jupyter_session entry;
\* path is the jupyter_session value as its sequence of components
ConnInfos ==
    {[ok |-> FALSE, path |-> <<"">>],
     [ok |-> TRUE, path |-> <<"work", "nb.ipynb">>]}

\* The file at the notebook path: whether open() and read() succeed
NbFiles == {[readable |-> FALSE, data |-> ""], [readable |-> TRUE, data |-> "A"]}

GetNotebookPath(conn) == IF conn.ok THEN conn.path ELSE <<"unknown">>

\* os.path.split(path)[-1]
GetNotebookName(conn) ==
    LET p == GetNotebookPath(conn) IN p[Len(p)]

\* hashlib.md5(data.encode()).hexdigest()
Md5(data) == "md5(" \o data \o ")"

\* get_notebook_hash() without its try/except
GetNotebookHashUnguarded(nb) ==
    IF nb.readable THEN [raised |-> FALSE, value |-> Md5(nb.data)]
    ELSE [raised |-> TRUE, value |-> ""]

GetNotebookHash(nb) ==
    IF nb.readable THEN [raised |-> FALSE, value |-> Md5(nb.data)]
    ELSE [raised |-> FALSE, value |-> "unknown"]

----------------------------------------------------------------------------
(* collect_system_context() *)

\* A context value: Python None, or a mapping with the given keys
NoneCtx == [none |-> TRUE, keys |-> {}]

\* The properties dict is built and dropped: the function has no return
\* statement. A sub-collector that throws (psutil.disk_usage) is not caught.
CollectSystemContext(diskFails) ==
    [raised |-> diskFails, value |-> NoneCtx]

----------------------------------------------------------------------------
(* load_ipython_extension and generic_event_handler *)

EventNames ==
    <<"shell_initialized", "pre_run_cell", "post_run_cell", "pre_execute",
      "post_execute">>

\* Inputs of one operation that the environment decides
\* (the notebook file is opened at the reported path; with no path reported
\* the name "unknown" is taken not to be a file)
Envs ==
    {e \in [conn : ConnInfos, nb : NbFiles, diskFails : BOOLEAN,
            trackRaises : BOOLEAN] : e.nb.readable => e.conn.ok}

NoRec == [event |-> "", props |-> EmptyMap, ctx |-> NoneCtx, anon |-> NoId]

NoGid ==
    [raised |-> FALSE, id |-> NoId, file |-> CHOOSE f \in Files : ~f.exists,
     wrote |-> FALSE, read |-> FALSE, gen |-> FALSE]

\* Record of an operation:
\*   op      "load" or "invoke" ("none" before the first one)
\*   event   the event name the callback was registered for
\*   nargs   number of arguments the host passed
\*   env     the environment's inputs
\*   raised  where the exception that left the operation came from
\*   sent    calls of instrumentor.track made
\*   rec     the record handed to instrumentor.track
\*   called  getid() was called; pre is the file before the call and gid
\*           the result of the call
\*   regs    event names registered by the operation
NoOp ==
    [op |-> "none", event |-> "", nargs |-> 0,
     env |-> CHOOSE e \in Envs : TRUE, raised |-> "none", sent |-> 0,
     rec |-> NoRec, called |-> FALSE,
     pre |-> CHOOSE f \in Files : ~f.exists, gid |-> NoGid, regs |-> <<>>]

\* The tail both operations share: context=collect_system_context(),
\* anonymous_id=getid(), then instrumentor.track(None, name, props, ...)
Track(base, name, props, env, f, d, n) ==
    LET c == CollectSystemContext(env.diskFails)
        g == GetId(f, d, n)
    IN  IF c.raised THEN [base EXCEPT !.raised = "context"]
        ELSE IF g.raised
        THEN [base EXCEPT !.raised = "getid", !.called = TRUE, !.pre = f,
                          !.gid = g]
        ELSE [base EXCEPT
                !.raised = IF env.trackRaises THEN "track" ELSE "none",
                !.called = TRUE, !.pre = f, !.gid = g, !.sent = 1,
                !.rec = [event |-> name, props |-> props, ctx |-> c.value,
                         anon |-> g.id]]

\* load_ipython_extension(ipython): the startup record, then the five
\* registrations
LoadOp(env, f, d, n) ==
    LET base == [NoOp EXCEPT !.op = "load", !.env = env]
        props == [notebook_name |-> GetNotebookName(env.conn)]
        t == Track(base, "shell_initialized", props, env, f, d, n)
    IN  IF t.raised = "none" THEN [t EXCEPT !.regs = EventNames] ELSE t

\* generic_event_handler(name, *args)
HandlerOp(name, args, env, f, d, n) ==
    LET base == [NoOp EXCEPT !.op = "invoke", !.event = name,
                             !.nargs = Len(args), !.env = env]
        h == GetNotebookHash(env.nb)
        p0 == [raw_event |-> "{}", notebook_name |-> GetNotebookName(env.conn),
               notebook_hash |-> h.value]
        x == IF Len(args) > 0 THEN ExtractInfo(args[1]) ELSE NoOut
    IN  IF h.raised THEN [base EXCEPT !.raised = "notebook_hash"]
        ELSE IF x.raised # "none" THEN [base EXCEPT !.raised = "extract"]
        ELSE Track(base, name, Merge(p0, x.info), env, f, d, n)

\* Event objects the host passes in the session model
HostEvents ==
    {[hasDict |-> TRUE, attrs |-> [a |-> IntV(1), info |-> ObjV([c |-> StrV("x")])],
      hasItems |-> FALSE, items |-> EmptyMap, cls |-> EmptyMap],
     [hasDict |-> TRUE, attrs |-> [a |-> IntV(1)],
      hasItems |-> FALSE, items |-> EmptyMap,
      cls |-> [info |-> ObjV([c |-> IntV(2)])]]}

ArgLists == {<<>>} \cup {<<e>> : e \in HostEvents}

\* State changes of an operation with record o
Apply(o) ==
    /\ last' = o
    /\ ops' = ops + 1
    /\ file' = IF o.called THEN o.gid.file ELSE file
    /\ writes' = writes + (IF o.called /\ o.gid.wrote THEN 1 ELSE 0)
    /\ clock' = clock + (IF o.called /\ o.gid.gen THEN 1 ELSE 0)
    /\ ntracked' = ntracked + o.sent
    /\ pending' = pending + (IF o.sent = 1 /\ o.raised = "none" THEN 1 ELSE 0)
    /\ subs' = subs \o o.regs
    /\ UNCHANGED <<dirw, errors, racevars, normvars>>

Load ==
    /\ ops < MaxOps
    /\ \E env \in Envs : Apply(LoadOp(env, file, dirw, clock))

\* The host calls a registered callback
Invoke ==
    /\ ops < MaxOps
    /\ \E name \in {subs[i] : i \in 1..Len(subs)}, args \in ArgLists,
          env \in Envs :
          Apply(HandlerOp(name, args, env, file, dirw, clock))

\* Delivery of a queued record fails: the backend calls on_error(error, items)
OnError ==
    /\ pending > 0
    /\ pending' = pending - 1
    /\ errors' = errors + 1
    /\ UNCHANGED <<file, dirw, clock, subs, writes, ntracked, ops, last,
                   racevars, normvars>>

\* The notebook process ends and a new one starts: the file stays
Restart ==
    /\ last.op # "none"
    /\ ops < MaxOps
    /\ subs' = <<>>
    /\ writes' = 0
    /\ ntracked' = 0
    /\ pending' = 0
    /\ errors' = 0
    /\ last' = NoOp
    /\ UNCHANGED <<file, dirw, clock, ops, racevars, normvars>>

----------------------------------------------------------------------------
(* Normalisation on its own: extract_info_from_event applied to an event *)

InitMain ==
    /\ file = [exists |-> FALSE, r |-> TRUE, w |-> TRUE, text |-> TRUE,
               content |-> <<>>]
    /\ dirw = TRUE
    /\ clock = 0
    /\ subs = <<>>
    /\ writes = 0
    /\ ntracked = 0
    /\ pending = 0
    /\ errors = 0
    /\ ops = 0
    /\ last = NoOp

InitRace ==
    /\ pc = [p \in 1..MaxProcs |-> "read"]
    /\ buf = [p \in 1..MaxProcs |-> NoId]
    /\ ret = [p \in 1..MaxProcs |-> NoId]

InitNormIdle ==
    /\ ev = CHOOSE e \in Events : TRUE
    /\ out = NoOut

InitNorm ==
    /\ InitMain
    /\ InitRace
    /\ ev \in Events
    /\ out = NoOut

\* extract_info_from_event(ev)
Extract ==
    /\ ~out.done
    /\ out' = ExtractInfo(ev)
    /\ UNCHANGED <<mainvars, racevars, ev>>

Init ==
    /\ file \in Files
    /\ dirw \in BOOLEAN
    /\ file.exists => dirw
    /\ clock = 0
    /\ subs = <<>>
    /\ writes = 0
    /\ ntracked = 0
    /\ pending = 0
    /\ errors = 0
    /\ ops = 0
    /\ last = NoOp
    /\ InitRace
    /\ InitNormIdle

Next == Load \/ Invoke \/ OnError \/ Restart

Spec == Init /\ [][Next]_vars

NextNorm == Extract

SpecNorm == InitNorm /\ [][NextNorm]_vars

----------------------------------------------------------------------------
(* getid() called by several callers at once (parallel callbacks, or       *)
(* notebook processes sharing the file), one step per file operation       *)

Procs == 1..MaxProcs

\* Files on which a lone getid() call takes the except branch and succeeds
ColdFiles == {f \in Files : ~CanRead(f) /\ CanWrite(f, TRUE) /\ (f.exists => f.r)}

InitColdStart ==
    /\ file \in ColdFiles
    /\ dirw = TRUE
    /\ clock = 0
    /\ subs = <<>>
    /\ writes = 0
    /\ ntracked = 0
    /\ pending = 0
    /\ errors = 0
    /\ ops = 0
    /\ last = NoOp
    /\ InitRace
    /\ InitNormIdle

\* try: open(path, "r"), f.read().strip(); on failure the except branch
\* draws id = str(uuid.uuid1())
ReadAttempt(p) ==
    /\ pc[p] = "read"
    /\ IF CanRead(file)
       THEN /\ ret' = [ret EXCEPT ![p] = Strip(file.content)]
            /\ pc' = [pc EXCEPT ![p] = "done"]
            /\ UNCHANGED <<buf, clock>>
       ELSE /\ buf' = [buf EXCEPT ![p] = Uuid1(clock)]
            /\ clock' = clock + 1
            /\ pc' = [pc EXCEPT ![p] = "open"]
            /\ UNCHANGED ret
    /\ UNCHANGED <<file, dirw, subs, writes, ntracked, pending, errors, ops,
                   last, normvars>>

\* open(path, "w"): creates or truncates the file
OpenForWrite(p) ==
    /\ pc[p] = "open"
    /\ IF CanWrite(file, dirw)
       THEN /\ file' = Truncated(file)
            /\ pc' = [pc EXCEPT ![p] = "write"]
       ELSE /\ pc' = [pc EXCEPT ![p] = "raised"]
            /\ UNCHANGED file
    /\ UNCHANGED <<dirw, clock, subs, writes, ntracked, pending, errors, ops,
                   last, buf, ret, normvars>>

\* f.write(id): the token goes to the file object's buffer
Write(p) ==
    /\ pc[p] = "write"
    /\ pc' = [pc EXCEPT ![p] = "close"]
    /\ UNCHANGED <<mainvars, buf, ret, normvars>>

\* leaving the with block closes f: the buffer is flushed at offset 0
Close(p) ==
    /\ pc[p] = "close"
    /\ file' = [file EXCEPT !.content = buf[p]]
    /\ writes' = writes + 1
    /\ pc' = [pc EXCEPT ![p] = "ret"]
    /\ UNCHANGED <<dirw, clock, subs, ntracked, pending, errors, ops, last,
                   buf, ret, normvars>>

\* return id
Return(p) ==
    /\ pc[p] = "ret"
    /\ ret' = [ret EXCEPT ![p] = buf[p]]
    /\ pc' = [pc EXCEPT ![p] = "done"]
    /\ UNCHANGED <<mainvars, buf, normvars>>

NextRace ==
    \E p \in Procs :
        ReadAttempt(p) \/ OpenForWrite(p) \/ Write(p) \/ Close(p) \/ Return(p)

SpecRace == InitColdStart /\ [][NextRace]_vars



----------------------------------------------------------------------------
(* Properties of getid() in a session: Spec *)

\* C1 (identity stability): a getid() call made while ~/.notebook-id exists
\* and is readable returns the trimmed content of the file, leaves the file
\* as it was and writes nothing; a call that follows another call, in the
\* same process, with the file readable, returns the token the call before
\* it returned.
IdentityStable ==
    [][(ops' = ops + 1 /\ last'.called) =>
          /\ CanRead(file) =>
                /\ last'.gid.id = Strip(file.content)
                /\ ~last'.gid.wrote
                /\ file' = file
                /\ writes' = writes
          /\ (CanRead(file) /\ last.called /\ ~last.gid.raised) =>
                last'.gid.id = last.gid.id]_vars

\* C1 witness: the second operation in a row read a token that differs from
\* the raw content of the file (it was trimmed), and no write has happened.
IdentityStableWitness ==
    /\ ops = 2
    /\ last.called
    /\ last.gid.read
    /\ last.gid.id # <<>>
    /\ last.gid.id # last.pre.content
    /\ writes = 0

\* A file getid() can take an identity from: readable, with content that is
\* not empty once trimmed
Usable(f) == CanRead(f) /\ Strip(f.content) # <<>>

\* C2 (identity cold-start), as claimed: a getid() call that found no usable
\* identity file (missing, unreadable, corrupt or empty) and returned has
\* returned a non-empty, freshly generated token, and the file exists and
\* holds exactly that token.
ColdStartPersists ==
    (last.called /\ ~Usable(last.pre) /\ ~last.gid.raised) =>
        /\ last.gid.id # <<>>
        /\ last.gid.gen
        /\ file.exists
        /\ file.content = last.gid.id

\* C9, as claimed: a process writes the identity file at most once.
WriteAtMostOnce == writes <= 1

----------------------------------------------------------------------------
(* Properties of the load and of the callbacks: Spec *)

\* C3 (event completeness), as claimed: a call of load_ipython_extension
\* registers the five event names, each once, and hands one startup record
\* to the backend.
LoadComplete ==
    last.op = "load" => (last.regs = EventNames /\ last.sent = 1)

\* C4, as claimed: every invocation of a registered callback passes exactly
\* one record to instrumentor.track, carrying the callback's event name and
\* the identity getid() returned.
OneRecordPerCallback ==
    last.op = "invoke" =>
        /\ last.sent = 1
        /\ last.rec.event = last.event
        /\ last.called
        /\ last.rec.anon = last.gid.id

\* C5 (backend fault isolation), as claimed: when instrumentor.track raises
\* while a callback or the load is being processed, no exception leaves the
\* operation.
BackendFaultIsolated ==
    (last.op # "none" /\ last.sent = 1 /\ last.env.trackRaises) =>
        last.raised = "none"

\* C7 (context degradation), as claimed: a failing sub-collector does not
\* abort the operation, and the context of the record handed to track is a
\* mapping that holds the platform string and the CPU count.
ContextDegrades ==
    last.op # "none" =>
        /\ last.raised # "context"
        /\ last.sent = 1 =>
              /\ ~last.rec.ctx.none
              /\ {"platform", "cpu_count"} \subseteq last.rec.ctx.keys

\* C8 (normalisation absence-safety): a callback invoked with no argument
\* does not raise on account of notebook_name or notebook_hash, and the
\* properties of the record it hands to track are exactly raw_event,
\* notebook_name and notebook_hash, with raw_event the constant "{}",
\* notebook_name "unknown" when the notebook path cannot be obtained and
\* notebook_hash "unknown" when the notebook file cannot be read.
AbsenceSafe ==
    (last.op = "invoke" /\ last.nargs = 0) =>
        /\ last.raised \notin {"notebook_name", "notebook_hash", "extract"}
        /\ last.raised \in {"none", "track"} => last.sent = 1
        /\ last.sent = 1 =>
              /\ DOMAIN last.rec.props =
                    {"raw_event", "notebook_name", "notebook_hash"}
              /\ last.rec.props["raw_event"] = "{}"
              /\ ~last.env.conn.ok =>
                    last.rec.props["notebook_name"] = "unknown"
              /\ ~last.env.nb.readable =>
                    last.rec.props["notebook_hash"] = "unknown"

\* C8 witness: a callback invoked with no argument, with neither the
\* notebook path nor the notebook file obtainable, handed its record over.
AbsenceSafeWitness ==
    /\ last.op = "invoke"
    /\ last.nargs = 0
    /\ ~last.env.conn.ok
    /\ ~last.env.nb.readable
    /\ last.sent = 1
    /\ last.rec.props["notebook_hash"] = "unknown"

----------------------------------------------------------------------------
(* Properties of extract_info_from_event: SpecNorm *)

\* The event exposes attributes and carries an info sub-object among them
HasInfoObject(e) ==
    /\ e.hasDict
    /\ "info" \in DOMAIN e.attrs
    /\ HasDict(e.attrs["info"])

----------------------------------------------------------------------------
(* Properties of racing getid() calls: SpecRace *)

\* C10, as claimed: once all racing calls have returned, they all returned
\* the same non-empty token and the file holds exactly that token.
RaceHarmless ==
    (\A p \in Procs : pc[p] = "done") =>
        \A p \in Procs :
            /\ ret[p] # <<>>
            /\ file.content = ret[p]
            /\ \A q \in Procs : ret[q] = ret[p]

====
